---- MODULE Spec2Model ----
(***************************************************************************)
(* Model of pkg/github/server.go: the tool registry built by NewServer     *)
(* (include/exclude filter, read-only gating), the request parameter       *)
(* accessors (requiredParam, requiredInt, optionalParam, ...) and the      *)
(* get_me handler.                                                         *)
(*                                                                         *)
(* A Go string is a sequence of chunks.  A chunk is a comma, a space or a  *)
(* run of characters that holds neither; the chunks used are uniquely      *)
(* decodable, so two strings are equal exactly when their chunk sequences  *)
(* are.  A tool name is the one-chunk string <<name>>.                     *)
(***************************************************************************)
EXTENDS Integers, Sequences, FiniteSets, TLC

VARIABLES
    readOnly,      \* NewServer's readOnly argument
    excludeTools,  \* NewServer's excludeTools argument
    includeTools,  \* NewServer's includeTools argument
    pc,            \* the section of NewServer that runs next
    s,             \* the server NewServer is building, with its closures' maps
    servers,       \* the servers NewServer has returned, oldest first
    args,          \* r.Params.Arguments of the request at hand
    ret,           \* the last accessor call on it and what it returned
    me             \* the last get_me call: what the client did, what was returned

vars == <<readOnly, excludeTools, includeTools, pc, s, servers, args, ret, me>>

config == <<readOnly, excludeTools, includeTools>>

requestVars == <<args, ret, me>>

Range(f) == {f[i] : i \in DOMAIN f}

(***************************************************************************)
(* Bounds                                                                  *)
(***************************************************************************)
\* longest configuration, in chunks: the exclude list and the include list together
MaxLen == 4
\* number of times NewServer is called with the same configuration
MaxBuilds == 2

(***************************************************************************)
(* strings.Split and strings.TrimSpace                                     *)
(***************************************************************************)
\* the white space among the chunks
IsSpace(c) == c \in {" "}

RECURSIVE SplitFrom(_, _, _, _)
SplitFrom(str, i, cur, acc) ==
    IF i > Len(str) THEN Append(acc, cur)
    ELSE IF str[i] = "," THEN SplitFrom(str, i + 1, <<>>, Append(acc, cur))
    ELSE SplitFrom(str, i + 1, Append(cur, str[i]), acc)

Split(str) == SplitFrom(str, 1, <<>>, <<>>)

RECURSIVE TrimLeft(_)
TrimLeft(str) ==
    IF Len(str) > 0 /\ IsSpace(str[1])
    THEN TrimLeft(SubSeq(str, 2, Len(str)))
    ELSE str

RECURSIVE TrimRight(_)
TrimRight(str) ==
    IF Len(str) > 0 /\ IsSpace(str[Len(str)])
    THEN TrimRight(SubSeq(str, 1, Len(str) - 1))
    ELSE str

TrimSpace(str) == TrimRight(TrimLeft(str))

\* the map built from a comma-separated list: its key set (every value is true)
ParseToolList(str) ==
    IF Len(str) > 0 THEN {TrimSpace(tok) : tok \in Range(Split(str))} ELSE {}

(***************************************************************************)
(* The tools, in the order NewServer declares them                         *)
(***************************************************************************)
ToolName(ctor) ==
    CASE ctor = "getIssue" -> <<"get_issue">>
      [] ctor = "searchIssues" -> <<"search_issues">>
      [] ctor = "listIssues" -> <<"list_issues">>
      [] ctor = "createIssue" -> <<"create_issue">>
      [] ctor = "addIssueComment" -> <<"add_issue_comment">>
      [] ctor = "updateIssue" -> <<"update_issue">>
      [] ctor = "getPullRequest" -> <<"get_pull_request">>
      [] ctor = "listPullRequests" -> <<"list_pull_requests">>
      [] ctor = "getPullRequestFiles" -> <<"get_pull_request_files">>
      [] ctor = "getPullRequestStatus" -> <<"get_pull_request_status">>
      [] ctor = "getPullRequestComments" -> <<"get_pull_request_comments">>
      [] ctor = "getPullRequestReviews" -> <<"get_pull_request_reviews">>
      [] ctor = "mergePullRequest" -> <<"merge_pull_request">>
      [] ctor = "updatePullRequestBranch" -> <<"update_pull_request_branch">>
      [] ctor = "createPullRequestReview" -> <<"create_pull_request_review">>
      [] ctor = "createPullRequest" -> <<"create_pull_request">>
      [] ctor = "searchRepositories" -> <<"search_repositories">>
      [] ctor = "getFileContents" -> <<"get_file_contents">>
      [] ctor = "listCommits" -> <<"list_commits">>
      [] ctor = "createOrUpdateFile" -> <<"create_or_update_file">>
      [] ctor = "createRepository" -> <<"create_repository">>
      [] ctor = "forkRepository" -> <<"fork_repository">>
      [] ctor = "createBranch" -> <<"create_branch">>
      [] ctor = "pushFiles" -> <<"push_files">>
      [] ctor = "searchCode" -> <<"search_code">>
      [] ctor = "searchUsers" -> <<"search_users">>
      [] ctor = "getMe" -> <<"get_me">>
      [] ctor = "getCodeScanningAlert" -> <<"get_code_scanning_alert">>
      [] ctor = "listCodeScanningAlerts" -> <<"list_code_scanning_alerts">>

\* guarded: the call sits inside an `if !readOnly` block
Tool(ctor, guarded) == [ctor |-> ctor, guarded |-> guarded]

IssueTools ==
    << Tool("getIssue", FALSE), Tool("searchIssues", FALSE),
       Tool("listIssues", FALSE),
       Tool("createIssue", TRUE), Tool("addIssueComment", TRUE),
       Tool("updateIssue", TRUE) >>

PullRequestTools ==
    << Tool("getPullRequest", FALSE), Tool("listPullRequests", FALSE),
       Tool("getPullRequestFiles", FALSE), Tool("getPullRequestStatus", FALSE),
       Tool("getPullRequestComments", FALSE),
       Tool("getPullRequestReviews", FALSE),
       Tool("mergePullRequest", TRUE), Tool("updatePullRequestBranch", TRUE),
       Tool("createPullRequestReview", TRUE), Tool("createPullRequest", TRUE) >>

RepositoryTools ==
    << Tool("searchRepositories", FALSE), Tool("getFileContents", FALSE),
       Tool("listCommits", FALSE),
       Tool("createOrUpdateFile", TRUE), Tool("createRepository", TRUE),
       Tool("forkRepository", TRUE), Tool("createBranch", TRUE),
       Tool("pushFiles", TRUE) >>

SearchTools == << Tool("searchCode", FALSE), Tool("searchUsers", FALSE) >>

UserTools == << Tool("getMe", FALSE) >>

CodeScanningTools ==
    << Tool("getCodeScanningAlert", FALSE),
       Tool("listCodeScanningAlerts", FALSE) >>

Catalog ==
    IssueTools \o PullRequestTools \o RepositoryTools \o SearchTools
        \o UserTools \o CodeScanningTools

ResourceTemplates ==
    << "getRepositoryResourceContent", "getRepositoryResourceBranchContent",
       "getRepositoryResourceCommitContent", "getRepositoryResourceTagContent",
       "getRepositoryResourcePrContent" >>

(***************************************************************************)
(* NewServer                                                               *)
(***************************************************************************)
\* the server under construction: the resource templates and the tools
\* handed to it, in call order; the two maps the closures of NewServer
\* capture; and the log of the calls of shouldIncludeTool with what each
\* returned
NewMCPServer ==
    [resources |-> <<>>, tools |-> <<>>, excludeList |-> {}, includeList |-> {},
     calls |-> <<>>]

shouldIncludeToolBothLists(srv, toolName) ==
    IF Cardinality(srv.includeList) > 0
    THEN toolName \in srv.includeList /\ toolName \notin srv.excludeList
    ELSE toolName \notin srv.excludeList

shouldIncludeTool(srv, toolName) ==
    IF Cardinality(srv.includeList) > 0
    THEN toolName \in srv.includeList
    ELSE toolName \notin srv.excludeList

AddToolFirst(srv, toolName) == [srv EXCEPT !.tools = <<toolName>> \o @]

AddTool(srv, toolName) == [srv EXCEPT !.tools = Append(@, toolName)]

addToolIfIncluded(srv, toolName) ==
    LET ok == shouldIncludeTool(srv, toolName)
        logged == [srv EXCEPT !.calls = Append(@, [name |-> toolName, ret |-> ok])]
    IN  IF ok THEN AddTool(logged, toolName) ELSE logged

BlockRunsAlways(tool, ro) == TRUE

\* whether control reaches the addToolIfIncluded call of a tool
BlockRuns(tool, ro) == ~tool.guarded \/ ~ro

\* the addToolIfIncluded calls of one section, in source order
AddTools(srv, ro, section) ==
    LET after[i \in 0..Len(section)] ==
            IF i = 0 THEN srv
            ELSE IF BlockRuns(section[i], ro)
                 THEN addToolIfIncluded(after[i - 1], ToolName(section[i].ctor))
                 ELSE after[i - 1]
    IN  after[Len(section)]

ParseToolLists ==
    /\ pc = "start"
    /\ Len(servers) < MaxBuilds
    /\ s' = [NewMCPServer EXCEPT !.excludeList = ParseToolList(excludeTools),
                                 !.includeList = ParseToolList(includeTools)]
    /\ pc' = "resources"
    /\ UNCHANGED <<config, servers, requestVars>>

AddResources ==
    /\ pc = "resources"
    /\ s' = [s EXCEPT !.resources = @ \o ResourceTemplates]
    /\ pc' = "issues"
    /\ UNCHANGED <<config, servers, requestVars>>

AddIssueTools ==
    /\ pc = "issues"
    /\ s' = AddTools(s, readOnly, IssueTools)
    /\ pc' = "pulls"
    /\ UNCHANGED <<config, servers, requestVars>>

AddPullRequestTools ==
    /\ pc = "pulls"
    /\ s' = AddTools(s, readOnly, PullRequestTools)
    /\ pc' = "repos"
    /\ UNCHANGED <<config, servers, requestVars>>

AddRepositoryTools ==
    /\ pc = "repos"
    /\ s' = AddTools(s, readOnly, RepositoryTools)
    /\ pc' = "search"
    /\ UNCHANGED <<config, servers, requestVars>>

AddSearchTools ==
    /\ pc = "search"
    /\ s' = AddTools(s, readOnly, SearchTools)
    /\ pc' = "users"
    /\ UNCHANGED <<config, servers, requestVars>>

AddUserTools ==
    /\ pc = "users"
    /\ s' = AddTools(s, readOnly, UserTools)
    /\ pc' = "scanning"
    /\ UNCHANGED <<config, servers, requestVars>>

\* what the caller holds of the returned server: its capabilities
Returned(srv) == [resources |-> srv.resources, tools |-> srv.tools]

\* the last section, and `return s`
AddCodeScanningTools ==
    /\ pc = "scanning"
    /\ s' = AddTools(s, readOnly, CodeScanningTools)
    /\ servers' = Append(servers, Returned(s'))
    /\ pc' = "start"
    /\ UNCHANGED <<config, requestVars>>

NewServer ==
    \/ ParseToolLists
    \/ AddResources
    \/ AddIssueTools
    \/ AddPullRequestTools
    \/ AddRepositoryTools
    \/ AddSearchTools
    \/ AddUserTools
    \/ AddCodeScanningTools

(***************************************************************************)
(* Request arguments: r.Params.Arguments, a map from parameter name to a   *)
(* dynamically typed value.  A float64 is held as a whole number of        *)
(* 1/Scale units, so that num = 3 with Scale = 2 is the Number 1.5.  The   *)
(* Numbers drawn lie within the range of int, where int(v) discards the    *)
(* fraction; a string argument is an opaque value.                         *)
(***************************************************************************)
\* float64 resolution: units per 1.0
Scale == 2
\* largest float64 magnitude drawn, in 1/Scale units
MaxNum == 3
\* longest array drawn
MaxElems == 2

Value(t, str, num, b, elems) ==
    [t |-> t, str |-> str, num |-> num, b |-> b, elems |-> elems]

StringVal(x) == Value("string", x, 0, FALSE, <<>>)
Float64Val(n) == Value("float64", "", n, FALSE, <<>>)
BoolVal(x) == Value("bool", "", 0, x, <<>>)
IntVal(k) == Value("int", "", k, FALSE, <<>>)
NilVal == Value("nil", "", 0, FALSE, <<>>)
AnySlice(elems) == Value("[]any", "", 0, FALSE, elems)
StringSlice(elems) == Value("[]string", "", 0, FALSE, elems)

\* `var zero T`
Zero(T) ==
    CASE T = "string" -> StringVal("")
      [] T = "float64" -> Float64Val(0)
      [] T = "bool" -> BoolVal(FALSE)
      [] T = "int" -> IntVal(0)

\* the error values, named by their format strings
NoErr == "nil"
ErrMissing == "missing required parameter: %s"
ErrNotOfType == "parameter %s is not of type %T"
ErrNotOfTypeIs == "parameter %s is not of type %T, is %T"
ErrNotString == "parameter %s is not of type string, is %T"
ErrNotCoerced == "parameter %s could not be coerced to []string, is %T"

Returns(val, err) == [val |-> val, err |-> err]

requiredParamAnyValue(T, r, p) ==
    IF p \notin DOMAIN r THEN Returns(Zero(T), ErrMissing)
    ELSE IF r[p].t # T THEN Returns(Zero(T), ErrNotOfType)
    ELSE Returns(r[p], NoErr)

requiredParam(T, r, p) ==
    IF p \notin DOMAIN r THEN Returns(Zero(T), ErrMissing)
    ELSE IF r[p].t # T THEN Returns(Zero(T), ErrNotOfType)
    ELSE IF r[p] = Zero(T) THEN Returns(Zero(T), ErrMissing)
    ELSE Returns(r[p], NoErr)

\* the floor of n / Scale
ToIntFloor(n) == n \div Scale

\* int(v) of a float64 v: the fraction is discarded
ToInt(n) == IF n >= 0 THEN n \div Scale ELSE -((-n) \div Scale)

requiredInt(r, p) ==
    LET v == requiredParam("float64", r, p)
    IN  IF v.err # NoErr THEN Returns(IntVal(0), v.err)
        ELSE Returns(IntVal(ToInt(v.val.num)), NoErr)

optionalParamNonZero(T, r, p) ==
    IF p \notin DOMAIN r THEN Returns(Zero(T), NoErr)
    ELSE IF r[p].t # T THEN Returns(Zero(T), ErrNotOfTypeIs)
    ELSE IF r[p] = Zero(T) THEN Returns(Zero(T), ErrMissing)
    ELSE Returns(r[p], NoErr)

optionalParam(T, r, p) ==
    IF p \notin DOMAIN r THEN Returns(Zero(T), NoErr)
    ELSE IF r[p].t # T THEN Returns(Zero(T), ErrNotOfTypeIs)
    ELSE Returns(r[p], NoErr)

optionalIntParam(r, p) ==
    LET v == optionalParam("float64", r, p)
    IN  IF v.err # NoErr THEN Returns(IntVal(0), v.err)
        ELSE Returns(IntVal(ToInt(v.val.num)), NoErr)

optionalIntParamWithDefaultOnError(r, p, d) ==
    LET v == optionalIntParam(r, p)
    IN  IF v.err # NoErr THEN Returns(IntVal(d), v.err)
        ELSE IF v.val.num = 0 THEN Returns(IntVal(d), NoErr)
        ELSE Returns(v.val, NoErr)

optionalIntParamWithDefault(r, p, d) ==
    LET v == optionalIntParam(r, p)
    IN  IF v.err # NoErr THEN Returns(IntVal(0), v.err)
        ELSE IF v.val.num = 0 THEN Returns(IntVal(d), NoErr)
        ELSE Returns(v.val, NoErr)

\* make([]string, n)
MakeStrings(n) == [i \in 1..n |-> StringVal("")]

ElementNotStringPartial(strSlice) == Returns(StringSlice(strSlice), ErrNotString)

\* the return inside the loop, taken at the first element that is no string
ElementNotString(strSlice) == Returns(StringSlice(<<>>), ErrNotString)

\* the `case []any` arm: strSlice is filled front to back until an element
\* is not a string
CopyStrings(v) ==
    LET loop[i \in 0..Len(v)] ==
            IF i = 0 THEN [strSlice |-> MakeStrings(Len(v)), failed |-> FALSE]
            ELSE IF loop[i - 1].failed THEN loop[i - 1]
            ELSE IF v[i].t # "string" THEN [loop[i - 1] EXCEPT !.failed = TRUE]
            ELSE [loop[i - 1] EXCEPT !.strSlice[i] = v[i]]
        end == loop[Len(v)]
    IN  IF end.failed THEN ElementNotString(end.strSlice)
        ELSE Returns(StringSlice(end.strSlice), NoErr)

optionalStringArrayParam(r, p) ==
    IF p \notin DOMAIN r THEN Returns(StringSlice(<<>>), NoErr)
    ELSE IF r[p].t = "[]string" THEN Returns(r[p], NoErr)
    ELSE IF r[p].t = "[]any" THEN CopyStrings(r[p].elems)
    ELSE Returns(StringSlice(<<>>), ErrNotCoerced)

(***************************************************************************)
(* The calls a handler makes on its request                                *)
(***************************************************************************)
Keys == {"owner", "page"}

Types == {"string", "float64", "bool"}

Defaults == {-1, 0, 30}

Called(fn, T, p, d, out) ==
    [fn |-> fn, T |-> T, p |-> p, d |-> d, val |-> out.val, err |-> out.err]

NoCall == Called("none", "", "", 0, Returns(NilVal, NoErr))

CallRequiredParam ==
    /\ \E T \in Types, p \in Keys :
          ret' = Called("requiredParam", T, p, 0, requiredParam(T, args, p))
    /\ UNCHANGED <<config, pc, s, servers, args, me>>

CallRequiredInt ==
    /\ \E p \in Keys : ret' = Called("requiredInt", "int", p, 0, requiredInt(args, p))
    /\ UNCHANGED <<config, pc, s, servers, args, me>>

CallOptionalParam ==
    /\ \E T \in Types, p \in Keys :
          ret' = Called("optionalParam", T, p, 0, optionalParam(T, args, p))
    /\ UNCHANGED <<config, pc, s, servers, args, me>>

CallOptionalIntParam ==
    /\ \E p \in Keys :
          ret' = Called("optionalIntParam", "int", p, 0, optionalIntParam(args, p))
    /\ UNCHANGED <<config, pc, s, servers, args, me>>

CallOptionalIntParamWithDefault ==
    /\ \E p \in Keys, d \in Defaults :
          ret' = Called("optionalIntParamWithDefault", "int", p, d,
                        optionalIntParamWithDefault(args, p, d))
    /\ UNCHANGED <<config, pc, s, servers, args, me>>

CallOptionalStringArrayParam ==
    /\ \E p \in Keys :
          ret' = Called("optionalStringArrayParam", "[]string", p, 0,
                        optionalStringArrayParam(args, p))
    /\ UNCHANGED <<config, pc, s, servers, args, me>>

Strs == {"", "a", "b"}

Scalars ==
    {StringVal(x) : x \in Strs} \cup {Float64Val(n) : n \in -MaxNum..MaxNum}
        \cup {BoolVal(x) : x \in BOOLEAN} \cup {NilVal}

Elements == {StringVal("a"), StringVal("b"), Float64Val(Scale)}

Arrays ==
    {AnySlice(e) : e \in UNION {[1..n -> Elements] : n \in 0..MaxElems}}
        \cup {StringSlice(e) :
                e \in UNION {[1..n -> {StringVal("a"), StringVal("b")}] : n \in 0..MaxElems}}

Values == Scalars \cup Arrays

Bags == UNION {[D -> Values] : D \in SUBSET Keys}

(***************************************************************************)
(* The get_me handler.  What client.Users.Get returns, whether the         *)
(* response body can be read and whether the user can be marshalled are    *)
(* the environment's choice.                                               *)
(***************************************************************************)
StatusOK == 200

NoResult == [nil |-> TRUE, isError |-> FALSE, text |-> <<>>]

\* mcp.NewToolResultError
NewToolResultError(text) == [nil |-> FALSE, isError |-> TRUE, text |-> text]

\* mcp.NewToolResultText
NewToolResultText(text) == [nil |-> FALSE, isError |-> FALSE, text |-> text]

\* json.Marshal of the user
Marshal(user) == <<"{\"login\":\"", user, "\"}">>

HardError(msg) == [result |-> NoResult, err |-> msg]

getMeHandlerSoftOnly(env) ==
    IF env.err THEN [result |-> NewToolResultError(<<"failed to get user">>), err |-> NoErr]
    ELSE IF env.status # StatusOK
    THEN [result |-> NewToolResultError(<<"failed to get user: ", env.body>>),
          err |-> NoErr]
    ELSE [result |-> NewToolResultText(Marshal(env.user)), err |-> NoErr]

getMeHandler(env) ==
    IF env.err THEN HardError("failed to get user: %w")
    ELSE IF env.status # StatusOK
    THEN IF env.readErr THEN HardError("failed to read response body: %w")
         ELSE [result |-> NewToolResultError(<<"failed to get user: ", env.body>>),
               err |-> NoErr]
    ELSE IF env.marshalErr THEN HardError("failed to marshal user: %w")
    ELSE [result |-> NewToolResultText(Marshal(env.user)), err |-> NoErr]

Statuses == {StatusOK, 201, 401, 403, 404, 500}

Envs ==
    [err : BOOLEAN, status : Statuses, body : {"", "Not Found"}, readErr : BOOLEAN,
     user : {"octocat", "hubot"}, marshalErr : BOOLEAN]

\* one call of the handler; the deferred resp.Body.Close() has run when it returns
CallGetMe ==
    /\ \E env \in Envs :
          LET out == getMeHandler(env)
          IN  me' = [fn |-> "getMe", env |-> env, result |-> out.result,
                     err |-> out.err, bodyClosed |-> ~env.err]
    /\ UNCHANGED <<config, pc, s, servers, args, ret>>

(***************************************************************************)
(* Configurations                                                          *)
(***************************************************************************)
Chunks == {",", " ", "create_issue", "get_me"}

\* the strings of at most n chunks
Strings(n) == UNION {[1..k -> Chunks] : k \in 0..n}

NoArgs == << >>

NoMe == [fn |-> "none"]

InitServer ==
    /\ readOnly \in BOOLEAN
    /\ excludeTools \in Strings(MaxLen)
    /\ includeTools \in Strings(MaxLen - Len(excludeTools))
    /\ pc = "start"
    /\ s = NewMCPServer
    /\ servers = <<>>
    /\ args = NoArgs
    /\ ret = NoCall
    /\ me = NoMe

Next == NewServer

Spec == InitServer /\ [][Next]_vars

InitParams ==
    /\ readOnly = FALSE
    /\ excludeTools = <<>>
    /\ includeTools = <<>>
    /\ pc = "start"
    /\ s = NewMCPServer
    /\ servers = <<>>
    /\ args \in Bags
    /\ ret = NoCall
    /\ me = NoMe

NextParams ==
    \/ CallRequiredParam
    \/ CallRequiredInt
    \/ CallOptionalParam
    \/ CallOptionalIntParam
    \/ CallOptionalIntParamWithDefault
    \/ CallOptionalStringArrayParam

SpecParams == InitParams /\ [][NextParams]_vars

InitGetMe ==
    /\ readOnly = FALSE
    /\ excludeTools = <<>>
    /\ includeTools = <<>>
    /\ pc = "start"
    /\ s = NewMCPServer
    /\ servers = <<>>
    /\ args = NoArgs
    /\ ret = NoCall
    /\ me = NoMe

NextGetMe == CallGetMe

SpecGetMe == InitGetMe /\ [][NextGetMe]_vars

(***************************************************************************)
(* Properties of the tool registry (Spec)                                  *)
(***************************************************************************)
CatalogNames == [i \in 1..Len(Catalog) |-> ToolName(Catalog[i].ctor)]

CreateIssue == <<"create_issue">>

GetMe == <<"get_me">>

\* C1: every call of shouldIncludeTool returns true exactly when the include
\* set is non-empty and holds the name, or the include set is empty and the
\* exclude set does not hold the name; with a non-empty include set a name in
\* both sets is exposed and a name outside the include set is not.
C1_FilterDecision ==
    \A i \in 1..Len(s.calls) :
        LET n == s.calls[i].name
            exposed == s.calls[i].ret
        IN  /\ exposed <=> \/ (s.includeList # {} /\ n \in s.includeList)
                           \/ (s.includeList = {} /\ n \notin s.excludeList)
            /\ s.includeList # {} =>
                  /\ (n \in s.includeList /\ n \in s.excludeList => exposed)
                  /\ (n \notin s.includeList => ~exposed)

\* a finished build whose include set is non-empty, where a name in both
\* sets was exposed and a name only in the exclude set was not
C1_Witness ==
    /\ Len(servers) > 0
    /\ pc = "start"
    /\ s.includeList # {}
    /\ \E i, j \in 1..Len(s.calls) :
          /\ s.calls[i].name \in s.includeList \cap s.excludeList
          /\ s.calls[i].ret
          /\ s.calls[j].name \in s.excludeList \ s.includeList
          /\ ~s.calls[j].ret

MutatingTools ==
    { <<"create_issue">>, <<"add_issue_comment">>, <<"update_issue">>,
      <<"merge_pull_request">>, <<"update_pull_request_branch">>,
      <<"create_pull_request_review">>, <<"create_pull_request">>,
      <<"create_or_update_file">>, <<"create_repository">>,
      <<"fork_repository">>, <<"create_branch">>, <<"push_files">> }

IncludeSet == ParseToolList(includeTools)

ExcludeSet == ParseToolList(excludeTools)

\* C2: in a server NewServer has returned, a mutating tool is registered iff
\* readOnly is false and the filter exposes its name; any other tool of the
\* catalog is registered iff the filter exposes its name.
C2_ReadOnlyGate ==
    LET incl == IncludeSet
        excl == ExcludeSet
        exposes(n) == IF incl # {} THEN n \in incl ELSE n \notin excl
    IN  \A k \in 1..Len(servers) :
            LET tools == Range(servers[k].tools)
            IN  \A n \in Range(CatalogNames) :
                    IF n \in MutatingTools
                    THEN n \in tools <=> (~readOnly /\ exposes(n))
                    ELSE n \in tools <=> exposes(n)

\* a read-only server whose include list names a mutating tool, built
\* without it
C2_Witness ==
    /\ readOnly
    /\ CreateIssue \in IncludeSet
    /\ Len(servers) > 0
    /\ CreateIssue \notin Range(servers[1].tools)

PositionInCatalog(n) == CHOOSE j \in 1..Len(CatalogNames) : CatalogNames[j] = n

\* tools holds catalog names only, at strictly increasing catalog positions
InCatalogOrder(tools) ==
    /\ \A i \in 1..Len(tools) : tools[i] \in Range(CatalogNames)
    /\ LET at == [i \in 1..Len(tools) |-> PositionInCatalog(tools[i])]
       IN  \A i \in 1..(Len(tools) - 1) : at[i] < at[i + 1]

Present == ret.p \in DOMAIN args

IsMissingParameter(err) == err = ErrMissing

IsTypeMismatch(err) ==
    err \in {ErrNotOfType, ErrNotOfTypeIs, ErrNotString, ErrNotCoerced}

\* the empty string, the number 0, false
IsZeroValue(v) ==
    \/ v.t = "string" /\ v.str = ""
    \/ v.t \in {"float64", "int"} /\ v.num = 0
    \/ v.t = "bool" /\ v.b = FALSE

\* the integer k nearest to zero-ward of n / Scale: no fraction is rounded up
\* in magnitude
Truncated(n) ==
    CHOOSE k \in -(MaxNum + 1)..(MaxNum + 1) :
        IF n >= 0 THEN k * Scale <= n /\ n < (k + 1) * Scale
        ELSE (k - 1) * Scale < n /\ n <= k * Scale

\* C4: requiredParam[T] gives MissingParameter for an absent key, else
\* TypeMismatch for a value not of type T, else MissingParameter for the zero
\* value of T, else the stored value with no error; every error comes with
\* the zero value of T.
C4_RequiredParam ==
    ret.fn = "requiredParam" =>
        /\ IF ~Present THEN IsMissingParameter(ret.err)
           ELSE IF args[ret.p].t # ret.T THEN IsTypeMismatch(ret.err)
           ELSE IF IsZeroValue(args[ret.p]) THEN IsMissingParameter(ret.err)
           ELSE ret.err = NoErr /\ ret.val = args[ret.p]
        /\ ret.err # NoErr => ret.val.t = ret.T /\ IsZeroValue(ret.val)

\* a present value of the right type that is the zero value, reported missing
C4_Witness ==
    /\ ret.fn = "requiredParam"
    /\ Present
    /\ args[ret.p].t = ret.T
    /\ IsZeroValue(args[ret.p])
    /\ IsMissingParameter(ret.err)

\* C5: requiredInt on a non-zero Number returns it truncated toward zero, on
\* the Number 0 fails with MissingParameter, on a value that is no Number
\* fails with TypeMismatch.
C5_RequiredIntTruncates ==
    ret.fn = "requiredInt" /\ Present =>
        IF args[ret.p].t # "float64" THEN IsTypeMismatch(ret.err)
        ELSE IF args[ret.p].num = 0 THEN IsMissingParameter(ret.err)
        ELSE /\ ret.err = NoErr
             /\ ret.val.t = "int"
             /\ ret.val.num = Truncated(args[ret.p].num)

\* a negative Number with a fraction, where truncation and floor differ
C5_Witness ==
    /\ ret.fn = "requiredInt"
    /\ Present
    /\ args[ret.p].t = "float64"
    /\ args[ret.p].num < -Scale
    /\ args[ret.p].num % Scale # 0
    /\ ret.err = NoErr
    /\ ret.val.num * Scale > args[ret.p].num

\* C6: requiredInt never succeeds with the int 0: every Number whose int is 0
\* (0 itself and every fraction strictly between -1 and 1) fails with
\* MissingParameter.
C6_RequiredIntNeverZero ==
    ret.fn = "requiredInt" =>
        /\ ret.err = NoErr => ret.val.num # 0
        /\ Present /\ args[ret.p].t = "float64"
              /\ Truncated(args[ret.p].num) = 0 => IsMissingParameter(ret.err)

\* C7: optionalParam[T] and optionalIntParam never report MissingParameter:
\* an absent key gives the zero value and no error, a value of the right type
\* is returned as it is (truncated toward zero by the int accessor), zero
\* value or not, and a value of another type gives TypeMismatch with the zero
\* value.
C7_OptionalNeverMissing ==
    /\ ret.fn \in {"optionalParam", "optionalIntParam"} =>
          /\ ~IsMissingParameter(ret.err)
          /\ ret.val.t = ret.T
          /\ ~Present => ret.err = NoErr /\ IsZeroValue(ret.val)
    /\ ret.fn = "optionalParam" /\ Present =>
          IF args[ret.p].t = ret.T
          THEN ret.err = NoErr /\ ret.val = args[ret.p]
          ELSE IsTypeMismatch(ret.err) /\ IsZeroValue(ret.val)
    /\ ret.fn = "optionalIntParam" /\ Present =>
          IF args[ret.p].t = "float64"
          THEN ret.err = NoErr /\ ret.val.num = Truncated(args[ret.p].num)
          ELSE IsTypeMismatch(ret.err) /\ IsZeroValue(ret.val)

\* optionalParam handed a present zero value back without an error
C7_Witness ==
    /\ ret.fn = "optionalParam"
    /\ Present
    /\ args[ret.p].t = ret.T
    /\ IsZeroValue(args[ret.p])
    /\ ret.err = NoErr
    /\ ret.val = args[ret.p]

\* C8: optionalIntParamWithDefault returns d for an absent key and for a
\* Number that truncates to 0, the truncated value when that is not 0, and a
\* TypeMismatch error with 0 (not d) for a value that is no Number.
C8_DefaultOnZero ==
    ret.fn = "optionalIntParamWithDefault" =>
        IF ~Present THEN ret.err = NoErr /\ ret.val.num = ret.d
        ELSE IF args[ret.p].t # "float64"
        THEN IsTypeMismatch(ret.err) /\ ret.val.num = 0
        ELSE /\ ret.err = NoErr
             /\ ret.val.num = IF Truncated(args[ret.p].num) = 0 THEN ret.d
                              ELSE Truncated(args[ret.p].num)

\* the key holds something that is no Number, the default is not 0, and the
\* call returned the error with 0
C8_Witness ==
    /\ ret.fn = "optionalIntParamWithDefault"
    /\ Present
    /\ args[ret.p].t # "float64"
    /\ ret.d # 0
    /\ IsTypeMismatch(ret.err)
    /\ ret.val.num = 0

AllStrings(elems) == \A i \in 1..Len(elems) : elems[i].t = "string"

\* C9: optionalStringArrayParam gives an empty sequence and no error for an
\* absent key, the same strings in the same order for a sequence of strings,
\* and TypeMismatch with an empty sequence, never a partly filled one, for a
\* sequence holding a non-string or a value that is no sequence.
C9_StringArrayAllOrNothing ==
    ret.fn = "optionalStringArrayParam" =>
        /\ ret.val.t = "[]string"
        /\ IF ~Present THEN ret.err = NoErr /\ ret.val.elems = <<>>
           ELSE IF args[ret.p].t \in {"[]string", "[]any"}
                   /\ AllStrings(args[ret.p].elems)
           THEN ret.err = NoErr /\ ret.val.elems = args[ret.p].elems
           ELSE IsTypeMismatch(ret.err) /\ ret.val.elems = <<>>

\* a sequence whose first element is a string and whose second is not
C9_Witness ==
    /\ ret.fn = "optionalStringArrayParam"
    /\ Present
    /\ args[ret.p].t = "[]any"
    /\ Len(args[ret.p].elems) = 2
    /\ args[ret.p].elems[1].t = "string"
    /\ args[ret.p].elems[2].t # "string"
    /\ IsTypeMismatch(ret.err)
    /\ ret.val.elems = <<>>

(***************************************************************************)
(* Properties of the get_me handler (SpecGetMe)                            *)
(***************************************************************************)
Soft == ~me.result.nil /\ me.result.isError /\ me.err = NoErr

Hard == me.result.nil /\ me.err # NoErr

Success == ~me.result.nil /\ ~me.result.isError /\ me.err = NoErr

\* C10 as claimed: a failed call gives a hard error and no result, a completed
\* call with a non-success status gives a soft tool-error and no hard error,
\* a completed call with success status that serializes gives a success
\* payload, and a result never comes together with a hard error.
C10_ThreeWaySplit ==
    me.fn = "getMe" =>
        /\ me.env.err => Hard
        /\ ~me.env.err /\ me.env.status # StatusOK => Soft
        /\ ~me.env.err /\ me.env.status = StatusOK /\ ~me.env.marshalErr => Success
        /\ ~(~me.result.nil /\ me.err # NoErr)

\* C10 amended: the soft tool-error is returned for a non-success status
\* whose response body could be read; when the body cannot be read the
\* handler returns a hard error and no result.
C10_ThreeWaySplitReadable ==
    me.fn = "getMe" =>
        /\ me.env.err => Hard
        /\ ~me.env.err /\ me.env.status # StatusOK /\ ~me.env.readErr => Soft
        /\ ~me.env.err /\ me.env.status # StatusOK /\ me.env.readErr => Hard
        /\ ~me.env.err /\ me.env.status = StatusOK /\ ~me.env.marshalErr => Success
        /\ ~(~me.result.nil /\ me.err # NoErr)

\* a completed call with a non-success status and a readable body, answered
\* with a soft tool-error that carries the body
C10_Witness ==
    /\ me.fn = "getMe"
    /\ ~me.env.err
    /\ me.env.status # StatusOK
    /\ ~me.env.readErr
    /\ Soft
    /\ me.result.text = <<"failed to get user: ", me.env.body>>

====
